---------------------------- MODULE Spec2Model ----------------------------
(***************************************************************************)
(* The AHP house-hunting notebook (notebooks/AHP_house_hunting.ipynb) as a *)
(* state machine.  The state is the notebook kernel's namespace; there is  *)
(* one action per code cell; a cell may be executed, and re-executed, in   *)
(* any order once the names it reads first are defined.  Of the kernel's   *)
(* execution counter the model keeps which of cells 9 and 10 have been run *)
(* again after a run that ended without an exception.                      *)
(*                                                                         *)
(* Numbers.  Python floats are modelled by exact rationals [n, d] in       *)
(* lowest terms (float rounding error, of order 1e-16, is outside the      *)
(* model).  The eigenvector iteration, whose limit is irrational, runs in  *)
(* fixed point with Scale units per 1; its result is then rounded to       *)
(* `precision` decimals, as the notebook requests, and stored as an exact  *)
(* rational.  With the raw values the notebook is written with, the exact  *)
(* global scores need 44-bit numerators; ReferenceSpec therefore runs cell *)
(* 10 in fixed point (six decimals, where a float keeps sixteen).          *)
(*                                                                         *)
(* ahpy.Compare is a third-party class the notebook calls; its code is not *)
(* part of the repository.  Its builder, extractor and consistency checker *)
(* are modelled from the specification's sections 4.1-4.3; what the        *)
(* notebook itself shows of it (precision=3, the recorded cell outputs) is *)
(* modelled from the notebook.                                             *)
(***************************************************************************)
EXTENDS Integers, Sequences, FiniteSets, TLC

VARIABLES
    nb,                          \* the literals written in the notebook's cells
    bound,                       \* the names the kernel has bound so far
    options,                     \* cell 2
    criteria_matrix,             \* cell 3
    printed_cr,                  \* cell 4 (its printed output)
    criteria_weights,            \* cell 5
    condition_matrix,            \* cell 6
    sorted_condition_priorities, \* cell 6
    safety_matrix,               \* cell 7
    sorted_safety_priorities,    \* cell 7
    local_table,                 \* cell 8
    local_priorities,            \* cell 9
    global_scores,               \* cell 10
    ranking,                     \* cell 10 (its printed output)
    again,                       \* those of cells 9, 10 run again after a run that ended ok
    out                          \* per cell: "none", "ok" or the exception raised

vars == <<nb, bound, options, criteria_matrix, printed_cr, criteria_weights,
          condition_matrix, sorted_condition_priorities, safety_matrix,
          sorted_safety_priorities, local_table, local_priorities,
          global_scores, ranking, again, out>>

----------------------------------------------------------------------------
(* Sequences and names *)

Range(s) == {s[i] : i \in DOMAIN s}

Abs(a) == IF a >= 0 THEN a ELSE -a

\* Position of the first occurrence of e in s (0 when absent).
IndexOf(s, e) ==
    IF e \in Range(s) THEN CHOOSE i \in DOMAIN s : s[i] = e /\ \A k \in 1..(i-1) : s[k] # e
    ELSE 0

\* Python's string order on the names that occur, as a rank.
NameOrder == <<"Condition", "Garden", "House A", "House B", "House C", "House D",
               "Location", "Price", "Safety", "Size">>

NameRank(x) == IndexOf(NameOrder, x)

\* sorted(keys): the names of the set S in increasing string order.
RECURSIVE SortedNames(_)
SortedNames(S) ==
    IF S = {} THEN <<>>
    ELSE LET m == CHOOSE x \in S : \A y \in S : NameRank(x) <= NameRank(y)
         IN <<m>> \o SortedNames(S \ {m})

----------------------------------------------------------------------------
(* Exact rationals, kept in lowest terms, for Python's float arithmetic *)

RECURSIVE GCD(_, _)
GCD(a, b) == IF b = 0 THEN a ELSE GCD(b, a % b)

Rat(n, d) == LET g == GCD(Abs(n), d) IN [n |-> n \div g, d |-> d \div g]

Zero == [n |-> 0, d |-> 1]

One == [n |-> 1, d |-> 1]

LCM(a, b) == (a \div GCD(a, b)) * b

RAdd(x, y) ==
    LET L == LCM(x.d, y.d) IN Rat(x.n * (L \div x.d) + y.n * (L \div y.d), L)

RMul(x, y) ==
    LET g1 == GCD(Abs(x.n), y.d)
        g2 == GCD(Abs(y.n), x.d)
    IN Rat((x.n \div g1) * (y.n \div g2), (x.d \div g2) * (y.d \div g1))

\* x / y for y > 0
RDiv(x, y) ==
    LET L == LCM(x.d, y.d) IN Rat(x.n * (L \div x.d), y.n * (L \div y.d))

RLess(x, y) ==
    LET L == LCM(x.d, y.d) IN x.n * (L \div x.d) < y.n * (L \div y.d)

RLeq(x, y) == ~ RLess(y, x)

\* sum of f[k] for the names k of the sequence ks, in that order
RECURSIVE RSum(_, _)
RSum(f, ks) == IF ks = <<>> THEN Zero ELSE RAdd(f[Head(ks)], RSum(f, Tail(ks)))

----------------------------------------------------------------------------
(* ahpy.Compare, part 1: the pairwise comparison matrix builder.            *)
(* A judgment set is the dict literal of a cell: a sequence, in insertion   *)
(* order, of [a, b, v] for the entry (a, b): v.                             *)

\* The items of a judgment set, in order of first appearance in its keys.
RECURSIVE ElementsFrom(_, _)
ElementsFrom(j, acc) ==
    IF j = <<>> THEN acc
    ELSE LET h  == Head(j)
             a1 == IF h.a \in Range(acc) THEN acc ELSE Append(acc, h.a)
             a2 == IF h.b \in Range(a1) THEN a1 ELSE Append(a1, h.b)
         IN ElementsFrom(Tail(j), a2)

Elements(j) == ElementsFrom(j, <<>>)

\* The judgments of j about the unordered pair {x, y}.
About(j, x, y) == {k \in DOMAIN j : {j[k].a, j[k].b} = {x, y}}

Undetermined == [n |-> 0, d |-> 0]

\* A variant of Judged that copies a judgment into the transposed cell as it is.
JudgedNoReciprocal(j, x, y) ==
    IF x = y THEN One
    ELSE IF About(j, x, y) = {} THEN Undetermined
    ELSE LET k == CHOOSE k \in About(j, x, y) : \A l \in About(j, x, y) : l <= k
         IN Rat(j[k].v, 1)

\* The cell M[x][y]: 1 on the diagonal, the supplied ratio where (x, y) was
\* judged, its reciprocal where (y, x) was, undetermined where neither was.
Judged(j, x, y) ==
    IF x = y THEN One
    ELSE IF About(j, x, y) = {} THEN Undetermined
    ELSE LET k == CHOOSE k \in About(j, x, y) : \A l \in About(j, x, y) : l <= k
         IN IF j[k].a = x THEN Rat(j[k].v, 1) ELSE Rat(1, j[k].v)

NoMatrix == [err |-> "none", el |-> <<>>, m |-> <<>>]

\* The cells M[x][y..n] of one row, and the rows x..n, as sequences.
RECURSIVE RowFrom(_, _, _, _)
RowFrom(j, el, x, y) ==
    IF y > Len(el) THEN <<>>
    ELSE <<Judged(j, el[x], el[y])>> \o RowFrom(j, el, x, y + 1)

RECURSIVE RowsFrom(_, _, _)
RowsFrom(j, el, x) ==
    IF x > Len(el) THEN <<>>
    ELSE <<RowFrom(j, el, x, 1)>> \o RowsFrom(j, el, x + 1)

BuildMatrix(j) ==
    LET el == Elements(j)
        m  == RowsFrom(j, el, 1)
    IN IF \E k \in DOMAIN j : j[k].v <= 0
       THEN [NoMatrix EXCEPT !.err = "InvalidRatio"]
       ELSE IF \E x \in DOMAIN m : \E y \in DOMAIN m : m[x][y] = Undetermined
       THEN [NoMatrix EXCEPT !.err = "IncompleteJudgmentSet"]
       ELSE [err |-> "ok", el |-> el, m |-> m]

----------------------------------------------------------------------------
(* ahpy.Compare, part 2: the priority vector extractor, in fixed point.     *)

\* Fixed-point units per 1.
Scale == 10 ^ 6

\* The iteration cap and the convergence tolerance (in fixed-point units: a
\* tolerance below the resolution means the vector no longer changes).
MaxIterations == 1000

Tolerance == 1

RECURSIVE SumTo(_, _)
SumTo(f, n) == IF n = 0 THEN 0 ELSE f[n] + SumTo(f, n - 1)

\* floor(r * sc / s) for 0 <= r < s, one decimal digit at a time.
RECURSIVE ScaledQuot(_, _, _)
ScaledQuot(r, s, sc) ==
    IF sc = 1 THEN 0
    ELSE LET t == r * 10
         IN (t \div s) * (sc \div 10) + ScaledQuot(t % s, s, sc \div 10)

\* floor(x * Scale / s): the quotient x / s in fixed point.
FixDiv(x, s) == (x \div s) * Scale + ScaledQuot(x % s, s, Scale)

\* row . v for a row of rationals and a fixed-point vector, over columns 1..y.
RECURSIVE Dot(_, _, _)
Dot(row, v, y) ==
    IF y = 0 THEN 0 ELSE Dot(row, v, y - 1) + (row[y].n * v[y]) \div row[y].d

\* M . v, rows x..n.
RECURSIVE MatVecFrom(_, _, _, _)
MatVecFrom(m, n, v, x) ==
    IF x > n THEN <<>> ELSE <<Dot(m[x], v, n)>> \o MatVecFrom(m, n, v, x + 1)

MatVec(m, n, v) == MatVecFrom(m, n, v, 1)

\* v[x..n] / s in fixed point.
RECURSIVE DivideFrom(_, _, _, _)
DivideFrom(v, n, s, x) ==
    IF x > n THEN <<>> ELSE <<FixDiv(v[x], s)>> \o DivideFrom(v, n, s, x + 1)

\* v divided by the sum of its components.
NormalizeFix(v, n) == DivideFrom(v, n, SumTo(v, n), 1)

\* The sum of |w[x] - v[x]| over x in 1..n.
RECURSIVE Change(_, _, _)
Change(v, w, n) == IF n = 0 THEN 0 ELSE Change(v, w, n - 1) + Abs(w[n] - v[n])

\* The sum of (M . v)[x] / v[x] over x in 1..n, in fixed point.
RECURSIVE QuotientSum(_, _, _)
QuotientSum(mv, v, n) ==
    IF n = 0 THEN 0 ELSE QuotientSum(mv, v, n - 1) + FixDiv(mv[n], v[n])

\* The all-ones vector of length n.
RECURSIVE Ones(_)
Ones(n) == IF n = 0 THEN <<>> ELSE Append(Ones(n - 1), Scale)

\* Power iteration: v <- normalize(M . v) until the change is below the
\* tolerance; EigenvectorDidNotConverge at the iteration cap.
RECURSIVE PowerIterate(_, _, _, _)
PowerIterate(m, n, v, it) ==
    LET w == NormalizeFix(MatVec(m, n, v), n)
    IN IF Change(v, w, n) < Tolerance THEN [err |-> "ok", v |-> w]
       ELSE IF it + 1 >= MaxIterations
       THEN [err |-> "EigenvectorDidNotConverge", v |-> w]
       ELSE PowerIterate(m, n, w, it + 1)

\* The principal eigenvector, from the all-ones vector.
ExtractPriorities(m, n) == PowerIterate(m, n, Ones(n), 0)

\* precision=3, the argument the notebook passes to every ahpy.Compare.
precision == 3

\* round(x, p) of a fixed-point x (half to even), as an exact rational.
RoundTo(x, p) ==
    LET q == Scale \div (10 ^ p)
        f == x \div q
        r == x % q
        k == IF 2 * r < q THEN f
             ELSE IF 2 * r > q THEN f + 1
             ELSE IF f % 2 = 0 THEN f ELSE f + 1
    IN Rat(k, 10 ^ p)

----------------------------------------------------------------------------
(* ahpy.Compare, part 3: the consistency checker.                           *)

\* Saaty's random index, in hundredths.
RI == <<0, 0, 58, 90, 112, 124, 132, 141, 145, 149>>

\* Python's division: an exception, not a value, on a zero divisor.
PyDiv(a, b) == IF b = 0 THEN [err |-> "ZeroDivisionError", v |-> 0]
               ELSE [err |-> "ok", v |-> a \div b]

\* lambda_max: the average of (M . v)[i] / v[i], in fixed point.
LambdaMax(m, n, v) ==
    QuotientSum(MatVec(m, n, v), v, n) \div n

\* CR = CI / RI(n) with CI = (lambda_max - n) / (n - 1), in fixed point.
RatioFormula(m, n, v) ==
    LET ci == PyDiv(LambdaMax(m, n, v) - n * Scale, n - 1)
    IN IF ci.err # "ok" THEN ci ELSE PyDiv(ci.v * 100, RI[n])

\* A variant of ConsistencyRatio that applies the formula at every size.
ConsistencyRatioUnguarded(m, n, v) == RatioFormula(m, n, v)

\* The consistency ratio of an n x n matrix with principal eigenvector v.
ConsistencyRatio(m, n, v) ==
    IF n <= 2 THEN [err |-> "ok", v |-> 0]
    ELSE IF n > Len(RI) THEN [err |-> "UnsupportedMatrixSize", v |-> 0]
    ELSE RatioFormula(m, n, v)

----------------------------------------------------------------------------
(* ahpy.Compare(name, comparisons, precision): the object the call returns, *)
(* or the exception it raises (err).                                        *)

\* A dict: its keys in order and its values.
EmptyDict == [keys |-> <<>>, val |-> <<>>]

NoCompare == [err |-> "none", elements |-> <<>>, matrix |-> <<>>,
              local_weights |-> EmptyDict, consistency_ratio |-> 0]

Compare(comparisons, prec) ==
    LET b  == BuildMatrix(comparisons)
        n  == Len(b.el)
        e  == ExtractPriorities(b.m, n)
        cr == ConsistencyRatio(b.m, n, e.v)
    IN IF b.err # "ok" THEN [NoCompare EXCEPT !.err = b.err]
       ELSE IF e.err # "ok" THEN [NoCompare EXCEPT !.err = e.err]
       ELSE IF cr.err # "ok" THEN [NoCompare EXCEPT !.err = cr.err]
       ELSE [err |-> "ok", elements |-> b.el, matrix |-> b.m,
             local_weights |->
                 [keys |-> b.el,
                  val  |-> [x \in Range(b.el) |-> RoundTo(e.v[IndexOf(b.el, x)], prec)]],
             consistency_ratio |-> cr.v]

\* target_weights of a Compare object without a parent: its local weights.
TargetWeights(c) == c.local_weights

\* dict(sorted(d.items())): the same entries, keys in increasing order.
SortedDict(d) == [keys |-> SortedNames(Range(d.keys)), val |-> d.val]

----------------------------------------------------------------------------
(* The literals of the notebook's cells *)

J(a, b, v) == [a |-> a, b |-> b, v |-> v]

\* criteria_comparisons as written in cell 3
ReferenceCriteria ==
    << J("Safety", "Location", 3), J("Safety", "Condition", 5),
       J("Safety", "Price", 7), J("Safety", "Size", 9),
       J("Location", "Condition", 2), J("Location", "Price", 5),
       J("Location", "Size", 7), J("Condition", "Price", 2),
       J("Condition", "Size", 4), J("Price", "Size", 3) >>

\* condition_comparisons as written in cell 6
ReferenceCondition ==
    << J("House A", "House B", 5), J("House A", "House C", 9),
       J("House B", "House C", 4) >>

\* safety_comparison as written in cell 7
ReferenceSafety ==
    << J("House A", "House B", 5), J("House C", "House B", 5),
       J("House A", "House C", 1) >>

\* Other judgment sets a user of the notebook may write in cell 3: two of the
\* five criteria, a criterion without local scores, a single criterion, and a
\* set that leaves the pair (Location, Condition) unjudged.
CriteriaInputs ==
    { ReferenceCriteria,
      << J("Safety", "Location", 3) >>,
      << J("Safety", "Garden", 3), J("Safety", "Price", 5), J("Garden", "Price", 2) >>,
      << J("Safety", "Safety", 1) >>,
      << J("Safety", "Location", 3), J("Safety", "Condition", 5) >> }

ConditionInputs ==
    { ReferenceCondition,
      << J("House A", "House B", 5) >>,
      << J("House B", "House D", 4), J("House A", "House D", 9),
         J("House A", "House B", 5) >> }

\* The largest ratio of the two-house judgment sets, and the largest raw value.
MaxRatio == 2

MaxRaw == 2

SafetyInputs ==
    { ReferenceSafety } \cup { << J("House B", "House A", v) >> : v \in 1..MaxRatio }

\* Raw values of a quantitative criterion, one per row of the table.
RawInputs == [1..3 -> 1..MaxRaw]

SizeInputs == { <<1, 2, 2>>, <<3, 3, 3>>, <<3, 1, 2>> }

\* The index literal of local_table.
IndexInputs == { <<"House A", "House B", "House C">>,
                 <<"House C", "House A", "House B">> }

\* The notebook with small raw values (prices 4, 2, 1; distances 1, 2, 2;
\* sizes 1, 2, 2) and the judgment sets as written.
BaseNotebook ==
    [criteria_comparisons |-> ReferenceCriteria,
     condition_comparisons |-> ReferenceCondition,
     safety_comparison |-> ReferenceSafety,
     price |-> <<4, 2, 1>>, location |-> <<1, 2, 2>>, size |-> <<1, 2, 2>>,
     index |-> <<"House A", "House B", "House C">>]

\* The notebook as written: price = [420e3, 380e3, 320e3], location =
\* [5, 21, 47], size = [75, 190, 285].
ReferenceNotebook ==
    [BaseNotebook EXCEPT !.price = <<420000, 380000, 320000>>,
                         !.location = <<5, 21, 47>>,
                         !.size = <<75, 190, 285>>]

\* The notebook as written, and with the houses' prices or sizes exchanged.
ReferenceInputs ==
    { ReferenceNotebook,
      [ReferenceNotebook EXCEPT !.price = <<320000, 380000, 420000>>],
      [ReferenceNotebook EXCEPT !.size = <<285, 190, 75>>] }

\* The notebooks of the model: the base notebook with its judgment sets, its
\* index, its prices and distances, or its sizes replaced.
NotebookInputs ==
    { [BaseNotebook EXCEPT !.criteria_comparisons = c, !.condition_comparisons = d] :
          c \in CriteriaInputs, d \in ConditionInputs }
    \cup { [BaseNotebook EXCEPT !.safety_comparison = f, !.index = i] :
               f \in SafetyInputs, i \in IndexInputs }
    \cup { [BaseNotebook EXCEPT !.price = r, !.location = <<r[3], r[1], r[2]>>] :
               r \in RawInputs }
    \cup { [BaseNotebook EXCEPT !.size = z] : z \in SizeInputs }

----------------------------------------------------------------------------
(* Cell 8: direct normalization, and the table of local scores *)

RECURSIVE SeqSum(_)
SeqSum(vec) == IF vec = <<>> THEN Zero ELSE RAdd(Head(vec), SeqSum(Tail(vec)))

\* np.array(values)
Array(values) == [i \in DOMAIN values |-> Rat(values[i], 1)]

\* 1 / vec
Invert(vec) == [i \in DOMAIN vec |-> RDiv(One, vec[i])]

\* def normalize(vec): return vec / vec.sum()
normalize(vec) == [i \in DOMAIN vec |-> RDiv(vec[i], SeqSum(vec))]

price_norm(price) == Invert(Array(price))

\* A variant of location_norm that keeps the distances as they are.
location_norm_direct(location) == Array(location)

location_norm(location) == Invert(Array(location))

\* A variant of size_norm that inverts, as for a lower-is-better criterion.
size_norm_inverted(size) == Invert(Array(size))

size_norm(size) == Array(size)

\* A DataFrame: its index, its columns in order, and val[column][label].
EmptyFrame == [index |-> <<>>, cols |-> <<>>, val |-> <<>>]

\* The column holding values[i] at the i-th label of the index.
Column(index, values) == [h \in Range(index) |-> values[IndexOf(index, h)]]

\* df[name] = values, for len(values) = len(df.index)
SetColumn(df, name, values) ==
    LET cols == IF name \in Range(df.cols) THEN df.cols ELSE Append(df.cols, name)
    IN [index |-> df.index, cols |-> cols,
        val |-> [c \in Range(cols) |->
                    IF c = name THEN Column(df.index, values) ELSE df.val[c]]]

\* pd.DataFrame({'Price': ..., 'Location': ..., 'Size': ...}, index=...)
LocalTable(price, location, size, index) ==
    LET cols == <<"Price", "Location", "Size">>
    IN [index |-> index, cols |-> cols,
        val |-> [c \in Range(cols) |->
                    Column(index,
                           CASE c = "Price"    -> normalize(price_norm(price))
                             [] c = "Location" -> normalize(location_norm(location))
                             [] c = "Size"     -> normalize(size_norm(size)))]]

\* list(d.values())
Values(d) == [i \in DOMAIN d.keys |-> d.val[d.keys[i]]]

----------------------------------------------------------------------------
(* Cell 9: merging the Condition and Safety local priorities *)

\* local_priorities = local_table.copy(); then one column per dict, assigned
\* by position.  A column of another length than the index raises ValueError
\* and leaves local_priorities as it is at that line.
Merge(table, condition, safety) ==
    IF Len(condition.keys) # Len(table.index)
    THEN [err |-> "ValueError", lp |-> table]
    ELSE LET lp1 == SetColumn(table, "Condition", Values(condition))
         IN IF Len(safety.keys) # Len(table.index)
            THEN [err |-> "ValueError", lp |-> lp1]
            ELSE [err |-> "ok", lp |-> SetColumn(lp1, "Safety", Values(safety))]

----------------------------------------------------------------------------
(* Cell 10: the global scores and the ranking *)

\* The (criterion, house) pairs in the order the nested loops visit them.
RECURSIVE Pairs(_, _)
Pairs(cs, hs) ==
    IF cs = <<>> THEN <<>>
    ELSE [i \in DOMAIN hs |-> [c |-> Head(cs), h |-> hs[i]]] \o Pairs(Tail(cs), hs)

\* A variant of Contribution that forgets the criterion's weight.
ContributionUnweighted(w, p) == p

\* weights * local_priorities[criterion][house]
Contribution(w, p) == RMul(w, p)

\* The accumulation loop: global_scores[house] += ... for each pair in turn,
\* stopping at the first lookup that fails, with what was accumulated so far.
RECURSIVE Accumulate(_, _, _, _, _)
Accumulate(gs, pairs, W, lp, lpBound) ==
    IF pairs = <<>> THEN [err |-> "ok", gs |-> gs]
    ELSE LET p == Head(pairs)
         IN IF ~ lpBound THEN [err |-> "NameError", gs |-> gs]
            ELSE IF p.c \notin Range(lp.cols) \/ p.h \notin Range(lp.index)
            THEN [err |-> "KeyError", gs |-> gs]
            ELSE Accumulate([gs EXCEPT ![p.h] = RAdd(@, Contribution(W.val[p.c], lp.val[p.c][p.h]))],
                            Tail(pairs), W, lp, lpBound)

\* A variant of Renormalize that leaves the accumulated sums as they are.
RenormalizeSkipped(gs, hs) == gs

\* total = sum(global_scores.values()); global_scores[house] /= total
Renormalize(gs, hs) ==
    LET total == RSum(gs, hs) IN [h \in DOMAIN gs |-> RDiv(gs[h], total)]

\* A variant of Aggregate that does not reset the accumulator: it adds to the
\* global_scores the kernel holds.
AggregateNoReset(bnd, opts, W, lp) ==
    LET gs0 == IF "global_scores" \in bnd THEN global_scores
               ELSE [h \in Range(opts) |-> Zero]
    IN IF "criteria_weights" \notin bnd THEN [err |-> "NameError", gs |-> gs0]
       ELSE LET acc == Accumulate(gs0, Pairs(W.keys, opts), W, lp,
                                  "local_priorities" \in bnd)
            IN IF acc.err # "ok" THEN acc
               ELSE [err |-> "ok", gs |-> Renormalize(acc.gs, opts)]

\* The whole of lines 613-622: the value global_scores is left with, and the
\* exception raised, if any.
Aggregate(bnd, opts, W, lp) ==
    LET gs0 == [h \in Range(opts) |-> Zero]
    IN IF "criteria_weights" \notin bnd THEN [err |-> "NameError", gs |-> gs0]
       ELSE LET acc == Accumulate(gs0, Pairs(W.keys, opts), W, lp,
                                  "local_priorities" \in bnd)
            IN IF acc.err # "ok" THEN acc
               ELSE [err |-> "ok", gs |-> Renormalize(acc.gs, opts)]

\* A variant of SortedByScore that puts the later of two equal scores first.
RECURSIVE SortedByScoreUnstable(_, _)
SortedByScoreUnstable(hs, gs) ==
    IF hs = <<>> THEN <<>>
    ELSE LET i == CHOOSE i \in DOMAIN hs :
                     /\ \A k \in DOMAIN hs : RLeq(gs[hs[k]], gs[hs[i]])
                     /\ \A k \in (i+1)..Len(hs) : RLess(gs[hs[k]], gs[hs[i]])
         IN <<hs[i]>> \o SortedByScoreUnstable([k \in 1..(Len(hs)-1) |->
                                                   IF k < i THEN hs[k] ELSE hs[k+1]], gs)

\* sorted(global_scores.items(), key=lambda x: x[1], reverse=True): by
\* decreasing score, equal scores in the order of the dict.
RECURSIVE SortedByScore(_, _)
SortedByScore(hs, gs) ==
    IF hs = <<>> THEN <<>>
    ELSE LET i == CHOOSE i \in DOMAIN hs :
                     /\ \A k \in DOMAIN hs : RLeq(gs[hs[k]], gs[hs[i]])
                     /\ \A k \in 1..(i-1) : RLess(gs[hs[k]], gs[hs[i]])
         IN <<hs[i]>> \o SortedByScore([k \in 1..(Len(hs)-1) |->
                                           IF k < i THEN hs[k] ELSE hs[k+1]], gs)

----------------------------------------------------------------------------
(* Cell 10 in fixed point: the same lines, each product and quotient        *)
(* rounded down to a multiple of 1/Scale.                                   *)

\* floor(x * Scale) of a rational 0 <= x
ToFix(x) == FixDiv(x.n, x.d)

\* weights * local_priorities[criterion][house]
ContributionFix(w, p) == (w.n * ToFix(p)) \div w.d

RECURSIVE AccumulateFix(_, _, _, _, _)
AccumulateFix(gs, pairs, W, lp, lpBound) ==
    IF pairs = <<>> THEN [err |-> "ok", gs |-> gs]
    ELSE LET p == Head(pairs)
         IN IF ~ lpBound THEN [err |-> "NameError", gs |-> gs]
            ELSE IF p.c \notin Range(lp.cols) \/ p.h \notin Range(lp.index)
            THEN [err |-> "KeyError", gs |-> gs]
            ELSE AccumulateFix([gs EXCEPT ![p.h] = @ + ContributionFix(W.val[p.c], lp.val[p.c][p.h])],
                               Tail(pairs), W, lp, lpBound)

\* total = sum(global_scores.values()); global_scores[house] /= total
RenormalizeFix(gs, hs) ==
    LET total == SumTo([i \in DOMAIN hs |-> gs[hs[i]]], Len(hs))
    IN [h \in DOMAIN gs |-> FixDiv(gs[h], total)]

\* Lines 613-622; the scores are returned as rationals with denominator Scale.
AggregateFix(bnd, opts, W, lp) ==
    LET gs0 == [h \in Range(opts) |-> 0]
        AsRat(gs) == [h \in DOMAIN gs |-> Rat(gs[h], Scale)]
    IN IF "criteria_weights" \notin bnd THEN [err |-> "NameError", gs |-> AsRat(gs0)]
       ELSE LET acc == AccumulateFix(gs0, Pairs(W.keys, opts), W, lp,
                                     "local_priorities" \in bnd)
            IN IF acc.err # "ok" THEN [err |-> acc.err, gs |-> AsRat(acc.gs)]
               ELSE [err |-> "ok", gs |-> AsRat(RenormalizeFix(acc.gs, opts))]

\* f'{score:.2f}': the score rounded to two decimals.
Formatted(score) == RoundTo(ToFix(score), 2)

----------------------------------------------------------------------------
(* The notebook: one action per code cell.  A cell whose first read of a    *)
(* name fails (NameError before any assignment) leaves the kernel as it     *)
(* was, and is not a step.                                                  *)

Cells == 2..10

Init ==
    /\ nb \in NotebookInputs
    /\ bound = {}
    /\ options = <<>>
    /\ criteria_matrix = NoCompare
    /\ printed_cr = 0
    /\ criteria_weights = EmptyDict
    /\ condition_matrix = NoCompare
    /\ sorted_condition_priorities = EmptyDict
    /\ safety_matrix = NoCompare
    /\ sorted_safety_priorities = EmptyDict
    /\ local_table = EmptyFrame
    /\ local_priorities = EmptyFrame
    /\ global_scores = <<>>
    /\ ranking = <<>>
    /\ again = {}
    /\ out = [c \in Cells |-> "none"]

\* criteria = [...]; options = ['House A', 'House B', 'House C']
Cell2 ==
    /\ options' = <<"House A", "House B", "House C">>
    /\ bound' = bound \cup {"options"}
    /\ out' = [out EXCEPT ![2] = "ok"]
    /\ UNCHANGED <<nb, again, criteria_matrix, printed_cr, criteria_weights,
                   condition_matrix, sorted_condition_priorities, safety_matrix,
                   sorted_safety_priorities, local_table, local_priorities,
                   global_scores, ranking>>

\* criteria_matrix = ahpy.Compare('Criteria', criteria_comparisons, precision=3)
Cell3 ==
    LET c == Compare(nb.criteria_comparisons, precision)
    IN /\ IF c.err = "ok"
          THEN /\ criteria_matrix' = c
               /\ bound' = bound \cup {"criteria_matrix"}
          ELSE UNCHANGED <<criteria_matrix, bound>>
       /\ out' = [out EXCEPT ![3] = c.err]
       /\ UNCHANGED <<nb, again, options, printed_cr, criteria_weights,
                      condition_matrix, sorted_condition_priorities, safety_matrix,
                      sorted_safety_priorities, local_table, local_priorities,
                      global_scores, ranking>>

\* print('Consistency Ratio:', criteria_matrix.consistency_ratio)
Cell4 ==
    /\ "criteria_matrix" \in bound
    /\ printed_cr' = criteria_matrix.consistency_ratio
    /\ out' = [out EXCEPT ![4] = "ok"]
    /\ UNCHANGED <<nb, again, bound, options, criteria_matrix, criteria_weights,
                   condition_matrix, sorted_condition_priorities, safety_matrix,
                   sorted_safety_priorities, local_table, local_priorities,
                   global_scores, ranking>>

\* criteria_weights = criteria_matrix.target_weights
Cell5 ==
    /\ "criteria_matrix" \in bound
    /\ criteria_weights' = TargetWeights(criteria_matrix)
    /\ bound' = bound \cup {"criteria_weights"}
    /\ out' = [out EXCEPT ![5] = "ok"]
    /\ UNCHANGED <<nb, again, options, criteria_matrix, printed_cr,
                   condition_matrix, sorted_condition_priorities, safety_matrix,
                   sorted_safety_priorities, local_table, local_priorities,
                   global_scores, ranking>>

\* condition_matrix = ahpy.Compare('Condition', condition_comparisons, precision=3)
\* sorted_condition_priorities = dict(sorted(condition_matrix.local_weights.items()))
Cell6 ==
    LET c == Compare(nb.condition_comparisons, precision)
    IN /\ IF c.err = "ok"
          THEN /\ condition_matrix' = c
               /\ sorted_condition_priorities' = SortedDict(c.local_weights)
               /\ bound' = bound \cup {"condition_matrix", "sorted_condition_priorities"}
          ELSE UNCHANGED <<condition_matrix, sorted_condition_priorities, bound>>
       /\ out' = [out EXCEPT ![6] = c.err]
       /\ UNCHANGED <<nb, again, options, criteria_matrix, printed_cr, criteria_weights,
                      safety_matrix, sorted_safety_priorities, local_table,
                      local_priorities, global_scores, ranking>>

\* safety_matrix = ahpy.Compare('Safety', safety_comparison, precision=3)
\* sorted_safety_priorities = dict(sorted(safety_matrix.local_weights.items()))
Cell7 ==
    LET c == Compare(nb.safety_comparison, precision)
    IN /\ IF c.err = "ok"
          THEN /\ safety_matrix' = c
               /\ sorted_safety_priorities' = SortedDict(c.local_weights)
               /\ bound' = bound \cup {"safety_matrix", "sorted_safety_priorities"}
          ELSE UNCHANGED <<safety_matrix, sorted_safety_priorities, bound>>
       /\ out' = [out EXCEPT ![7] = c.err]
       /\ UNCHANGED <<nb, again, options, criteria_matrix, printed_cr, criteria_weights,
                      condition_matrix, sorted_condition_priorities, local_table,
                      local_priorities, global_scores, ranking>>

\* price_lp, location_lp, size_lp and local_table
Cell8 ==
    /\ local_table' = LocalTable(nb.price, nb.location, nb.size, nb.index)
    /\ bound' = bound \cup {"local_table"}
    /\ out' = [out EXCEPT ![8] = "ok"]
    /\ UNCHANGED <<nb, again, options, criteria_matrix, printed_cr, criteria_weights,
                   condition_matrix, sorted_condition_priorities, safety_matrix,
                   sorted_safety_priorities, local_priorities, global_scores, ranking>>

\* local_priorities = local_table.copy() and its two new columns
Cell9 ==
    /\ {"local_table", "sorted_condition_priorities", "sorted_safety_priorities"}
           \subseteq bound
    /\ LET r == Merge(local_table, sorted_condition_priorities, sorted_safety_priorities)
       IN /\ local_priorities' = r.lp
          /\ out' = [out EXCEPT ![9] = r.err]
    /\ bound' = bound \cup {"local_priorities"}
    /\ again' = IF out[9] = "ok" THEN again \cup {9} ELSE again
    /\ UNCHANGED <<nb, options, criteria_matrix, printed_cr, criteria_weights,
                   condition_matrix, sorted_condition_priorities, safety_matrix,
                   sorted_safety_priorities, local_table, global_scores, ranking>>

\* global_scores, its renormalization and the printed ranking
Cell10 ==
    /\ "options" \in bound
    /\ LET r == Aggregate(bound, options, criteria_weights, local_priorities)
       IN /\ global_scores' = r.gs
          /\ ranking' = IF r.err = "ok" THEN SortedByScore(options, r.gs) ELSE ranking
          /\ out' = [out EXCEPT ![10] = r.err]
    /\ bound' = bound \cup {"global_scores"}
    /\ again' = IF out[10] = "ok" THEN again \cup {10} ELSE again
    /\ UNCHANGED <<nb, options, criteria_matrix, printed_cr, criteria_weights,
                   condition_matrix, sorted_condition_priorities, safety_matrix,
                   sorted_safety_priorities, local_table, local_priorities>>

Next ==
    \/ Cell2 \/ Cell3 \/ Cell4 \/ Cell5 \/ Cell6
    \/ Cell7 \/ Cell8 \/ Cell9 \/ Cell10

Spec == Init /\ [][Next]_vars

\* Cell 10 on the notebook's own raw values, in fixed point.
Cell10Rounded ==
    /\ "options" \in bound
    /\ LET r == AggregateFix(bound, options, criteria_weights, local_priorities)
       IN /\ global_scores' = r.gs
          /\ ranking' = IF r.err = "ok" THEN SortedByScore(options, r.gs) ELSE ranking
          /\ out' = [out EXCEPT ![10] = r.err]
    /\ bound' = bound \cup {"global_scores"}
    /\ again' = IF out[10] = "ok" THEN again \cup {10} ELSE again
    /\ UNCHANGED <<nb, options, criteria_matrix, printed_cr, criteria_weights,
                   condition_matrix, sorted_condition_priorities, safety_matrix,
                   sorted_safety_priorities, local_table, local_priorities>>

\* The notebook with the raw values it is written with.
ReferenceInit ==
    /\ nb \in ReferenceInputs
    /\ bound = {}
    /\ options = <<>>
    /\ criteria_matrix = NoCompare
    /\ printed_cr = 0
    /\ criteria_weights = EmptyDict
    /\ condition_matrix = NoCompare
    /\ sorted_condition_priorities = EmptyDict
    /\ safety_matrix = NoCompare
    /\ sorted_safety_priorities = EmptyDict
    /\ local_table = EmptyFrame
    /\ local_priorities = EmptyFrame
    /\ global_scores = <<>>
    /\ ranking = <<>>
    /\ again = {}
    /\ out = [c \in Cells |-> "none"]

ReferenceNext ==
    \/ Cell2 \/ Cell3 \/ Cell4 \/ Cell5 \/ Cell6
    \/ Cell7 \/ Cell8 \/ Cell9 \/ Cell10Rounded

ReferenceSpec == ReferenceInit /\ [][ReferenceNext]_vars

----------------------------------------------------------------------------
(* Properties *)

\* The Compare objects the kernel holds (err = "ok" once bound).
Compared == {criteria_matrix, condition_matrix, safety_matrix}

IsReciprocal(m) ==
    \A x \in DOMAIN m :
        /\ m[x][x] = One
        /\ \A y \in DOMAIN m : RMul(m[x][y], m[y][x]) = One

\* C1: every comparison matrix built from a judgment set has M[i][i] = 1 and
\* M[i][j] * M[j][i] = 1 for all items i, j, whichever way round each
\* judgment was supplied.
C1_MatricesAreReciprocal ==
    \A c \in Compared : c.err = "ok" => IsReciprocal(c.matrix)

\* C1, its case: the Safety matrix is built from the set that gives
\* ('House C', 'House B'): 5, and holds M[B][C] = 1/5.
C1_Witness ==
    /\ "safety_matrix" \in bound
    /\ nb.safety_comparison = ReferenceSafety
    /\ safety_matrix.elements = <<"House A", "House B", "House C">>
    /\ safety_matrix.matrix[2][3] = Rat(1, 5)
    /\ safety_matrix.matrix[3][2] = Rat(5, 1)

\* |x - 1| <= 1e-9
WithinTolerance(x) == Abs(x.n - x.d) <= x.d \div (10 ^ 9)

SumsToOne(d) ==
    /\ \A k \in Range(d.keys) : RLeq(Zero, d.val[k])
    /\ WithinTolerance(RSum(d.val, d.keys))

\* C2: every priority vector returned by extraction (built with precision=3)
\* has only non-negative components, and they sum to 1 within 1e-9.
C2_PriorityVectorsSumToOne ==
    \A c \in Compared : c.err = "ok" => SumsToOne(c.local_weights)

\* S(j): the sum over the criteria C of W(c) * Pc(j).
RECURSIVE WeightedScore(_, _)
WeightedScore(C, j) ==
    IF C = {} THEN Zero
    ELSE LET c == CHOOSE c \in C : TRUE
         IN RAdd(RMul(criteria_weights.val[c], local_priorities.val[c][j]),
                 WeightedScore(C \ {c}, j))

\* C3: for every option j the aggregator's result is S(j) / sum_k S(k), with
\* S(j) the sum over exactly the criteria of the weight vector of W(c) * Pc(j).
C3_ScoresAreNormalizedWeightedSums ==
    out[10] = "ok" =>
        LET C == Range(criteria_weights.keys)
            S == [j \in Range(options) |-> WeightedScore(C, j)]
        IN /\ DOMAIN global_scores = Range(options)
           /\ \A j \in Range(options) :
                  global_scores[j] = RDiv(S[j], RSum(S, options))

\* C3, its case: the aggregation ran to its end over the five criteria.
C3_Witness ==
    /\ out[10] = "ok"
    /\ Len(criteria_weights.keys) = 5
    /\ Range(criteria_weights.keys) = Range(local_priorities.cols)

\* C4: after aggregation every global score lies in [0, 1] and the scores sum
\* to 1, also when the input vectors do not sum to 1.
C4_ScoresSumToOne ==
    out[10] = "ok" =>
        /\ \A j \in Range(options) :
               RLeq(Zero, global_scores[j]) /\ RLeq(global_scores[j], One)
        /\ RSum(global_scores, options) = One

\* C4, its case: the aggregation ran to its end on criteria weights that do
\* not sum to 1.
C4_Witness ==
    /\ out[10] = "ok"
    /\ RSum(criteria_weights.val, criteria_weights.keys) # One

\* The score of the i-th row of the table under column c.
Score(c, i) == local_table.val[c][local_table.index[i]]

C6_MismatchNeverReturnsScores ==
    out[10] = "ok" =>
        /\ Range(criteria_weights.keys) = Range(local_priorities.cols)
        /\ Range(sorted_condition_priorities.keys) = Range(local_table.index)
        /\ Range(sorted_safety_priorities.keys) = Range(local_table.index)

\* C7: an aggregation that fails at a lookup part-way through its loop (here
\* after a merge that succeeded) leaves no global_scores value behind.
C7_FailedAggregationLeavesNothing ==
    (out[9] = "ok" /\ out[10] = "KeyError") => "global_scores" \notin bound

\* The principal eigenvector of a Compare object before rounding.
Unrounded(c) == ExtractPriorities(c.matrix, Len(c.elements)).v

\* C9: the stored priority vectors keep full precision; they are not the
\* values rounded to three decimals.
C9_StoredWeightsKeepFullPrecision ==
    \A c \in Compared : c.err = "ok" =>
        \A x \in DOMAIN c.elements :
            c.local_weights.val[c.elements[x]] = Rat(Unrounded(c)[x], Scale)

\* The judgment set each Compare cell reads, and the object it binds.
JudgmentsOf(k) ==
    CASE k = 3 -> nb.criteria_comparisons
      [] k = 6 -> nb.condition_comparisons
      [] k = 7 -> nb.safety_comparison

ObjectOf(k) ==
    CASE k = 3 -> criteria_matrix
      [] k = 6 -> condition_matrix
      [] k = 7 -> safety_matrix

\* C10: for every matrix of one or two items the consistency ratio is 0, and
\* computing it raises no division by zero.
C10_SmallMatrixRatioIsZero ==
    \A k \in {3, 6, 7} :
        (out[k] # "none" /\ Len(Elements(JudgmentsOf(k))) <= 2) =>
            /\ out[k] = "ok"
            /\ ObjectOf(k).consistency_ratio = 0

\* C10, its case: a one-item and a two-item matrix have been built.
C10_Witness ==
    /\ out[3] = "ok" /\ Len(criteria_matrix.elements) = 1
    /\ out[6] = "ok" /\ Len(condition_matrix.elements) = 2

\* C12: on the notebook as written the criteria weights are 0.524, 0.247,
\* 0.123, 0.071, 0.036, the global scores print as House A 0.54, House C 0.31,
\* House B 0.15 (each more than 0.001 away from where the second decimal
\* changes), and the ranking is A, C, B.
C12_ReferenceScores ==
    (nb = ReferenceNotebook /\ out[10] = "ok") =>
        /\ criteria_weights.val =
               [c \in {"Safety", "Location", "Condition", "Price", "Size"} |->
                   CASE c = "Safety"    -> Rat(524, 1000)
                     [] c = "Location"  -> Rat(247, 1000)
                     [] c = "Condition" -> Rat(123, 1000)
                     [] c = "Price"     -> Rat(71, 1000)
                     [] c = "Size"      -> Rat(36, 1000)]
        /\ Formatted(global_scores["House A"]) = Rat(54, 100)
        /\ Formatted(global_scores["House C"]) = Rat(31, 100)
        /\ Formatted(global_scores["House B"]) = Rat(15, 100)
        /\ \A h \in Range(options) :
               LET r == ToFix(global_scores[h]) % (Scale \div 100)
               IN Abs(r - Scale \div 200) > Scale \div 1000
        /\ ranking = <<"House A", "House C", "House B">>

\* C12, its case: every cell of the notebook as written has run, the
\* aggregation last and to its end.
C12_Witness ==
    /\ nb = ReferenceNotebook
    /\ \A c \in Cells : out[c] = "ok"
    /\ Range(local_priorities.cols) = Range(criteria_weights.keys)
    /\ ranking # <<>>

\* The column c of local_priorities holds, in the row of each option that the
\* dict d has a weight for, that weight.
RowsAligned(c, d) ==
    \A h \in Range(local_priorities.index) \cap Range(d.keys) :
        local_priorities.val[c][h] = d.val[h]

\* C13: after the merge every option's row of local_priorities holds the
\* Condition and the Safety score that extraction computed for that option,
\* whatever the option names and the order of the table's index.
C13_MergeAlignsOptions ==
    out[9] = "ok" =>
        /\ RowsAligned("Condition", condition_matrix.local_weights)
        /\ RowsAligned("Safety", safety_matrix.local_weights)


\* C14: the printed ranking lists every option exactly once, by non-increasing
\* global score, and options with equal scores in the order of the options
\* list.
C14_RankingIsStableDescending ==
    out[10] = "ok" =>
        /\ Len(ranking) = Len(options)
        /\ Range(ranking) = Range(options)
        /\ \A i \in DOMAIN ranking : \A k \in DOMAIN ranking :
               i < k =>
                   /\ RLeq(global_scores[ranking[k]], global_scores[ranking[i]])
                   /\ global_scores[ranking[i]] = global_scores[ranking[k]]
                          => IndexOf(options, ranking[i]) < IndexOf(options, ranking[k])

\* C14, its case: a ranking has been printed for scores of which two are
\* equal and the third is smaller.
C14_Witness ==
    /\ out[10] = "ok"
    /\ global_scores["House A"] = global_scores["House C"]
    /\ RLess(global_scores["House B"], global_scores["House A"])
    /\ ranking = <<"House A", "House C", "House B">>

\* What one run of the cells in order, first to last, leaves in global_scores.
SingleRun ==
    LET cw   == TargetWeights(Compare(nb.criteria_comparisons, precision))
        cond == SortedDict(Compare(nb.condition_comparisons, precision).local_weights)
        saf  == SortedDict(Compare(nb.safety_comparison, precision).local_weights)
        lp   == Merge(LocalTable(nb.price, nb.location, nb.size, nb.index), cond, saf).lp
    IN Aggregate({"criteria_weights", "local_priorities"},
                 <<"House A", "House B", "House C">>, cw, lp).gs

\* C15: however often and in whatever order the merge cell and the
\* aggregation cell are executed again once the cells they read from have
\* run, global_scores is what a single run of the cells in order leaves: the
\* scores when the aggregation runs to its end, the sums accumulated up to the
\* failing lookup when it does not.
C15_ReexecutionKeepsScores ==
    out[10] \in {"ok", "KeyError"} => global_scores = SingleRun

\* C15, its case: the merge cell and the aggregation cell have each been run
\* again after a run that ended ok, and the scores are those of a single run.
C15_Witness ==
    /\ again = {9, 10}
    /\ out[9] = "ok" /\ out[10] = "ok"
    /\ global_scores = SingleRun

============================================================================
